---------------------------- MODULE Spec2Model ----------------------------
(***************************************************************************)
(* Model of the analytics core of src/src/ecommerce_etl.py (EcommerceETL): *)
(* RFM scoring, segment assignment, the conversion funnel and the cohort   *)
(* analysis, each as one action over the caller's order and event tables.  *)
(*                                                                         *)
(* Time is counted in units of 1/UnitsPerDay day, so that "whole days"     *)
(* (Timedelta.days) is a floor division.  Quantile edges and rates are     *)
(* rationals; they are kept exact by scaling (an edge is stored times      *)
(* NumQuantiles, a rate as a pair <<numerator, denominator>>).             *)
(***************************************************************************)
EXTENDS Integers, Sequences, FiniteSets, TLC

VARIABLES
    orders,         \* the caller's orders DataFrame: a sequence of rows
    orders_columns, \* the column names of the caller's orders DataFrame
    events,         \* the caller's web events DataFrame: a sequence of rows
    now,            \* the wall clock, as pd.Timestamp.now() last read it
    row,            \* the (r_score, f_score, m_score) row given to _assign_rfm_segment
    segment,        \* what _assign_rfm_segment returned for row
    rfm,            \* outcome of the last calculate_rfm_scores call
    funnel,         \* outcome of the last calculate_conversion_funnel call
    retention,      \* outcome of the last analyze_cohorts call
    order_items,    \* the caller's order line items DataFrame: a sequence of rows
    affinity,       \* outcome of the last analyze_product_affinity call
    pc              \* position of each analyzer a caller runs in a thread of its own

vars == <<orders, orders_columns, events, now, row, segment, rfm, funnel, retention,
          order_items, affinity, pc>>

-----------------------------------------------------------------------------
(* Bounds of the model *)

MaxOrders == 3
MaxCustomers == 2
NowStart == 2
MaxNow == 3
UnitsPerDay == 2

(* Program constants *)

NumQuantiles == 5
MaxScore == 5

\* The code of a missing value in a pandas Categorical.
NaN == -1

-----------------------------------------------------------------------------
(* Generic helpers *)

RECURSIVE SumOver(_, _)
SumOver(f, S) ==
    IF S = {} THEN 0
    ELSE LET x == CHOOSE y \in S : TRUE
         IN  f[x] + SumOver(f, S \ {x})

MaxOf(S) == CHOOSE x \in S : \A y \in S : y <= x
MinOf(S) == CHOOSE x \in S : \A y \in S : x <= y

\* The element of rank i (0-based, ascending) of the values f takes on S.
Kth(f, S, i) ==
    CHOOSE v \in {f[c] : c \in S} :
        /\ Cardinality({c \in S : f[c] < v}) <= i
        /\ i < Cardinality({c \in S : f[c] <= v})

\* The members of a set of integers as an ascending sequence.
SortedSeq(S) ==
    LET id == [x \in S |-> x]
    IN  [i \in 1..Cardinality(S) |-> Kth(id, S, i - 1)]

NoResult == [status |-> "none", error |-> "", rows |-> <<>>]
Raised(kind) == [status |-> "error", error |-> kind, rows |-> <<>>]
Returned(rows) == [status |-> "ok", error |-> "", rows |-> rows]

-----------------------------------------------------------------------------
(* EcommerceETL._assign_rfm_segment *)

\* Variant: the Loyal Customers test placed before the Champions test.
_assign_rfm_segment_loyal_first(rw) ==
    LET r == rw.r_score
        f == rw.f_score
        m == rw.m_score
    IN  IF r >= 3 /\ f >= 3 /\ m >= 3 THEN "Loyal Customers"
        ELSE IF r >= 4 /\ f >= 4 /\ m >= 4 THEN "Champions"
        ELSE IF r >= 4 /\ f <= 2 THEN "New Customers"
        ELSE IF r <= 2 /\ f >= 3 THEN "At Risk"
        ELSE IF r <= 2 /\ f <= 2 THEN "Lost Customers"
        ELSE IF r >= 3 /\ f <= 2 THEN "Potential Loyalists"
        ELSE "Regular Customers"

_assign_rfm_segment(rw) ==
    LET r == rw.r_score
        f == rw.f_score
        m == rw.m_score
    IN  IF r >= 4 /\ f >= 4 /\ m >= 4 THEN "Champions"
        ELSE IF r >= 3 /\ f >= 3 /\ m >= 3 THEN "Loyal Customers"
        ELSE IF r >= 4 /\ f <= 2 THEN "New Customers"
        ELSE IF r <= 2 /\ f >= 3 THEN "At Risk"
        ELSE IF r <= 2 /\ f <= 2 THEN "Lost Customers"
        ELSE IF r >= 3 /\ f <= 2 THEN "Potential Loyalists"
        ELSE "Regular Customers"

-----------------------------------------------------------------------------
(* pd.qcut(x, 5, labels=..., duplicates='drop') as calculate_rfm_scores uses it *)

\* Variant: recency labelled like the other metrics (not inverted).
RecencyLabels_direct == <<1, 2, 3, 4, 5>>

RecencyLabels == <<5, 4, 3, 2, 1>>

\* Variant: zero-based labels.
FrequencyLabels_zero_based == <<0, 1, 2, 3, 4>>

FrequencyLabels == <<1, 2, 3, 4, 5>>
MonetaryLabels == <<1, 2, 3, 4, 5>>

\* The k-th quantile edge (linear interpolation between order statistics) of the
\* values vals takes on S, times NumQuantiles.
Edge(vals, S, k) ==
    LET n   == Cardinality(S)
        pos == (n - 1) * k
        lo  == pos \div NumQuantiles
        fr  == pos % NumQuantiles
        hi  == IF lo + 1 <= n - 1 THEN lo + 1 ELSE lo
    IN  NumQuantiles * Kth(vals, S, lo)
            + fr * (Kth(vals, S, hi) - Kth(vals, S, lo))

\* The bin edges after duplicates='drop'. The quantiles of an empty column are
\* all NaN, which collapse to a single edge.
UniqueBins(vals, S) ==
    IF S = {} THEN {NaN}
    ELSE {Edge(vals, S, k) : k \in 0..NumQuantiles}

\* searchsorted(bins, x, side='left'), with include_lowest; x is a value of the
\* column, bins are edges times NumQuantiles.
BinId(bins, x) ==
    IF NumQuantiles * x = MinOf(bins) THEN 1
    ELSE Cardinality({b \in bins : b < NumQuantiles * x})

qcut(vals, S, labels) ==
    LET bins == UniqueBins(vals, S)
    IN  IF Len(labels) # Cardinality(bins) - 1
        THEN [ok |-> FALSE, error |-> "ValueError", codes |-> <<>>]
        ELSE [ok |-> TRUE, error |-> "",
              codes |-> [c \in S |->
                  LET id == BinId(bins, vals[c])
                  IN  IF id = 0 \/ id = Cardinality(bins) THEN NaN
                      ELSE labels[id]]]

-----------------------------------------------------------------------------
(* EcommerceETL.calculate_rfm_scores *)

CustomerIds(o) == {o[i].customer_id : i \in DOMAIN o}
OrdersOf(o, c) == {i \in DOMAIN o : o[i].customer_id = c}

\* Variant: days since the customer's first order, x.min().
Recency_since_first(o, c, t) ==
    (t - MinOf({o[i].order_date : i \in OrdersOf(o, c)})) \div UnitsPerDay

\* (current_date - x.max()).days
Recency(o, c, t) ==
    (t - MaxOf({o[i].order_date : i \in OrdersOf(o, c)})) \div UnitsPerDay

\* 'order_id': 'count'
Frequency(o, c) == Cardinality(OrdersOf(o, c))

\* 'order_total': 'sum'
Monetary(o, c) == SumOver([i \in DOMAIN o |-> o[i].order_total], OrdersOf(o, c))

calculate_rfm_scores(o, t) ==
    LET S   == CustomerIds(o)
        rec == [c \in S |-> Recency(o, c, t)]
        frq == [c \in S |-> Frequency(o, c)]
        mon == [c \in S |-> Monetary(o, c)]
        r   == qcut(rec, S, RecencyLabels)
        f   == qcut(frq, S, FrequencyLabels)
        m   == qcut(mon, S, MonetaryLabels)
        ids == SortedSeq(S)
        scored(c) == [customer_id |-> c,
                      recency |-> rec[c], frequency |-> frq[c], monetary |-> mon[c],
                      r_score |-> r.codes[c], f_score |-> f.codes[c],
                      m_score |-> m.codes[c],
                      rfm_score |-> <<r.codes[c], f.codes[c], m.codes[c]>>]
    IN  IF ~r.ok THEN Raised(r.error)
        ELSE IF ~f.ok THEN Raised(f.error)
        ELSE IF ~m.ok THEN Raised(m.error)
        ELSE IF \E c \in S : NaN \in {r.codes[c], f.codes[c], m.codes[c]}
             THEN Raised("ValueError")   \* int(NaN) in _assign_rfm_segment
        ELSE Returned([i \in 1..Len(ids) |->
                 [segment |-> _assign_rfm_segment(scored(ids[i]))] @@ scored(ids[i])])

-----------------------------------------------------------------------------
(* Rates: the float results of a pandas division, kept exact.  x / 0 is inf  *)
(* for x > 0 and NaN for x = 0; no exception is raised.                      *)

RECURSIVE GCD(_, _)
GCD(a, b) == IF b = 0 THEN a ELSE GCD(b, a % b)

\* The finite value n / d (d > 0), in lowest terms.
Num(n, d) ==
    LET g == GCD(IF n < 0 THEN -n ELSE n, d)
    IN  [kind |-> "num", num |-> n \div g, den |-> d \div g]
NaNRate == [kind |-> "nan", num |-> 0, den |-> 0]
InfRate == [kind |-> "inf", num |-> 0, den |-> 0]

\* a / b * 100
Percent(a, b) ==
    IF b # 0 THEN Num(100 * a, b)
    ELSE IF a = 0 THEN NaNRate
    ELSE InfRate

\* 100 - x
HundredMinus(x) ==
    IF x.kind = "num" THEN Num(100 * x.den - x.num, x.den)
    ELSE IF x.kind = "inf" THEN [x EXCEPT !.kind = "-inf"]
    ELSE x

\* Variant: infinite values are filled as well.
fillna_infinite(x, v) == IF x.kind \in {"nan", "inf"} THEN Num(v, 1) ELSE x

\* x.fillna(v)
fillna(x, v) == IF x.kind = "nan" THEN Num(v, 1) ELSE x

IsNum(x) == x.kind = "num"
RateEquals(x, n) == IsNum(x) /\ x.num = n * x.den
RateLeq(x, y) == IsNum(x) /\ IsNum(y) /\ x.num * y.den <= y.num * x.den
RateSum(x, y) == Num(x.num * y.den + y.num * x.den, x.den * y.den)

-----------------------------------------------------------------------------
(* EcommerceETL.calculate_conversion_funnel *)

\* Variant: checkout listed before add_to_cart.
FunnelStages_checkout_first ==
    <<"visit", "product_view", "checkout", "add_to_cart", "purchase">>

\* The keys of funnel_stages, in insertion order.
FunnelStages == <<"visit", "product_view", "add_to_cart", "checkout", "purchase">>

\* Variant: the visit stage keeps only the events with a product view.
StageEvents_visit_viewed(ev, stage) ==
    CASE stage \in {"visit", "product_view"} -> {i \in DOMAIN ev : ev[i].product_views > 0}
      [] stage = "add_to_cart"  -> {i \in DOMAIN ev : ev[i].add_to_cart > 0}
      [] stage = "checkout"     -> {i \in DOMAIN ev : ev[i].checkout_started > 0}
      [] stage = "purchase"     -> {i \in DOMAIN ev : ev[i].purchase_completed > 0}

\* The events a stage's filter keeps.
StageEvents(ev, stage) ==
    CASE stage = "visit"        -> DOMAIN ev
      [] stage = "product_view" -> {i \in DOMAIN ev : ev[i].product_views > 0}
      [] stage = "add_to_cart"  -> {i \in DOMAIN ev : ev[i].add_to_cart > 0}
      [] stage = "checkout"     -> {i \in DOMAIN ev : ev[i].checkout_started > 0}
      [] stage = "purchase"     -> {i \in DOMAIN ev : ev[i].purchase_completed > 0}

\* ...['session_id'].nunique()
StageSessions(ev, stage) ==
    Cardinality({ev[i].session_id : i \in StageEvents(ev, stage)})

ConversionRate(sessions, i) == Percent(sessions[i], sessions[1])

DropOffRate(sessions, i) == HundredMinus(ConversionRate(sessions, i))

\* sessions / sessions.shift(1) * 100, then fillna(100)
StageConversion(sessions, i) ==
    fillna(IF i = 1 THEN NaNRate ELSE Percent(sessions[i], sessions[i - 1]), 100)

calculate_conversion_funnel(ev) ==
    LET sessions == [i \in DOMAIN FunnelStages |-> StageSessions(ev, FunnelStages[i])]
    IN  Returned([i \in DOMAIN FunnelStages |->
            [stage            |-> FunnelStages[i],
             sessions         |-> sessions[i],
             stage_order      |-> i,
             conversion_rate  |-> ConversionRate(sessions, i),
             drop_off_rate    |-> DropOffRate(sessions, i),
             stage_conversion |-> StageConversion(sessions, i)]])

-----------------------------------------------------------------------------
(* EcommerceETL.analyze_cohorts *)

DaysPerMonth == 30

\* order_date.dt.to_period('M'), with months of DaysPerMonth days
MonthOf(t) == (t \div UnitsPerDay) \div DaysPerMonth

\* Variant: the cohort is the month of the customer's latest order, 'max'.
CohortMonth_latest(o, c) == MaxOf({MonthOf(o[i].order_date) : i \in OrdersOf(o, c)})

\* 'order_month': 'min' per customer
CohortMonth(o, c) == MinOf({MonthOf(o[i].order_date) : i \in OrdersOf(o, c)})

\* (order_month - cohort_month).n
MonthsSinceFirst(o, i) == MonthOf(o[i].order_date) - CohortMonth(o, o[i].customer_id)

\* Variant: orders counted instead of distinct customers, count().
CohortCount_orders(o, cm, off) ==
    Cardinality({j \in DOMAIN o : /\ CohortMonth(o, o[j].customer_id) = cm
                                  /\ MonthsSinceFirst(o, j) = off})

\* Variant: the month column takes the place of order_date.
WithOrderMonth_replacing(columns) == (columns \ {"order_date"}) \cup {"order_month"}

\* orders['order_month'] = ...: the columns of orders after the assignment.
WithOrderMonth(columns) == columns \cup {"order_month"}

\* groupby(['cohort_month', 'months_since_first'])['customer_id'].nunique()
CohortCount(o, cm, off) ==
    Cardinality({o[i].customer_id : i \in
        {j \in DOMAIN o : /\ CohortMonth(o, o[j].customer_id) = cm
                          /\ MonthsSinceFirst(o, j) = off}})

analyze_cohorts(o) ==
    LET index   == {CohortMonth(o, c) : c \in CustomerIds(o)}
        columns == {MonthsSinceFirst(o, i) : i \in DOMAIN o}
    IN  IF columns = {} THEN Raised("IndexError")   \* cohort_matrix.iloc[:, 0]
        ELSE LET first == MinOf(columns)
             IN  Returned([cell \in index \X columns |->
                     IF CohortCount(o, cell[1], cell[2]) = 0
                            \/ CohortCount(o, cell[1], first) = 0 THEN NaNRate
                     ELSE Percent(CohortCount(o, cell[1], cell[2]),
                                  CohortCount(o, cell[1], first))])

-----------------------------------------------------------------------------
(* EcommerceETL.analyze_product_affinity *)

\* a / b
Ratio(a, b) ==
    IF b # 0 THEN Num(a, b)
    ELSE IF a = 0 THEN NaNRate
    ELSE InfRate

\* pairs: one record per two line positions i < j of one order, the products
\* taken from the order's lines as tolist() gives them.
Pairs(items) ==
    {p \in (DOMAIN items) \X (DOMAIN items) :
        p[1] < p[2] /\ items[p[1]].order_id = items[p[2]].order_id}

PairKey(items, p) == <<items[p[1]].product_id, items[p[2]].product_id>>

\* groupby(['product_a', 'product_b']).agg({'order_id': 'count'})
CoOccurrenceCount(items, key) ==
    Cardinality({p \in Pairs(items) : PairKey(items, p) = key})

\* The rows of the grouped frame with support = co_occurrence_count / len(orders).
AffinityRows(o, items) ==
    {[product_a |-> key[1], product_b |-> key[2],
      co_occurrence_count |-> CoOccurrenceCount(items, key),
      support |-> Ratio(CoOccurrenceCount(items, key), Len(o))] :
         key \in {PairKey(items, p) : p \in Pairs(items)}}

\* sort_values('co_occurrence_count', ascending=False) with the default
\* kind='quicksort', which is not stable: rows of equal count come in any order.
RECURSIVE sort_values(_)
sort_values(rows) ==
    IF rows = {} THEN {<<>>}
    ELSE LET top == {r \in rows : \A q \in rows :
                        r.co_occurrence_count >= q.co_occurrence_count}
         IN  UNION {{<<r>> \o rest : rest \in sort_values(rows \ {r})} : r \in top}

\* The outcomes a call can have; pd.DataFrame() when there is no pair.
analyze_product_affinity(o, items) ==
    IF Pairs(items) = {} THEN {Returned(<<>>)}
    ELSE {Returned(sorted) : sorted \in sort_values(AffinityRows(o, items))}

-----------------------------------------------------------------------------
(* The tables a caller can hand to the analyzers *)

OrderColumns == {"order_id", "customer_id", "order_date", "order_total", "order_status"}

Order(id, c, d, total) ==
    [order_id |-> id, customer_id |-> c, order_date |-> d, order_total |-> total]

\* Order dates (in time units up to NowStart) and order totals of the bounded tables.
OrderDates == {0, 1, 2}
OrderTotals == {1, 2}

\* Every orders table of n rows over these values, its rows in order_date order
\* as extract_orders delivers them; order_id is unique.
OrderTables(n) ==
    {[i \in 1..n |-> Order(i, f[i][1], d[i], f[i][2])] :
         f \in [1..n -> (1..MaxCustomers) \X OrderTotals],
         d \in {g \in [1..n -> OrderDates] : \A i \in 1..(n - 1) : g[i] <= g[i + 1]}}

\* Customer 1 with three orders (day-0, day-10, day-20; totals 100/200/300) and
\* customer 2 with one order (day-5, total 50); day-20 is time 0.
ExampleOrdersAB ==
    <<Order(1, 1, -20 * UnitsPerDay, 100), Order(2, 1, -10 * UnitsPerDay, 200),
      Order(3, 1, 0, 300), Order(4, 2, -15 * UnitsPerDay, 50)>>

\* Five customers with 5, 4, 3, 2 and 1 orders, each a day after the other.
ExampleOrdersFive ==
    LET owner == <<5, 5, 5, 5, 5, 4, 4, 4, 4, 3, 3, 3, 2, 2, 1>>
    IN  [i \in 1..Len(owner) |-> Order(i, owner[i], -UnitsPerDay * owner[i], owner[i])]

\* orders is a table a caller can pass: a bounded table or one of the examples.
IsOrderInput(o) ==
    \/ \E n \in 0..MaxOrders : o \in OrderTables(n)
    \/ o \in {ExampleOrdersAB, ExampleOrdersFive}

MaxMonth == 2

\* Order dates of the cohort tables: the first instant of each month up to
\* MaxMonth and a second instant in the first month.
CohortDates == {m * DaysPerMonth * UnitsPerDay : m \in 0..MaxMonth} \cup {1}

\* Every orders table of n rows over the cohort dates, in any row order.
CohortTables(n) ==
    {[i \in 1..n |-> Order(i, f[i][1], f[i][2], 1)] :
         f \in [1..n -> (1..MaxCustomers) \X CohortDates]}

MaxEvents == 2
MaxSessions == 2
MaxItems == 3

\* Product ids, by their rank in the order pandas sorts them.
Products == {1, 2, 3}

\* An orders table of n rows with order ids 1..n.
NumberedOrders(n) == [i \in 1..n |-> Order(i, 1, 0, 1)]

\* Every line-item table of k rows over the orders 1..n.
ItemTables(n, k) == [1..k -> [order_id : 1..n, product_id : Products]]

\* Two orders with the products {1, 2} and {1, 3}.
ExampleItems ==
    <<[order_id |-> 1, product_id |-> 1], [order_id |-> 1, product_id |-> 2],
      [order_id |-> 2, product_id |-> 1], [order_id |-> 2, product_id |-> 3]>>

\* The values of an event's counters.
EventCounters == {0, 1}

Event(s, pv, atc, cs, pu) ==
    [session_id |-> s, product_views |-> pv, add_to_cart |-> atc,
     checkout_started |-> cs, purchase_completed |-> pu]

\* Every events table of n rows with non-negative counters.
EventTables(n) ==
    {[i \in 1..n |-> Event(f[i][1], f[i][2], f[i][3], f[i][4], f[i][5])] :
         f \in [1..n -> (1..MaxSessions) \X EventCounters \X EventCounters
                            \X EventCounters \X EventCounters]}

ScoreRows ==
    [r_score : 1..MaxScore, f_score : 1..MaxScore, m_score : 1..MaxScore]

-----------------------------------------------------------------------------
(* Operations *)

AssignRfmSegment ==
    /\ row \in ScoreRows
    /\ segment' = _assign_rfm_segment(row)
    /\ UNCHANGED <<orders, orders_columns, events, now, row, rfm, funnel, retention, order_items, affinity, pc>>

\* current_date = pd.Timestamp.now(): the clock never runs backwards.
CalculateRfmScores ==
    \E current_date \in now..MaxNow :
        /\ now' = current_date
        /\ rfm' = calculate_rfm_scores(orders, current_date)
        /\ UNCHANGED <<orders, orders_columns, events, row, segment, funnel, retention, order_items, affinity, pc>>

CalculateConversionFunnel ==
    /\ funnel' = calculate_conversion_funnel(events)
    /\ UNCHANGED <<orders, orders_columns, events, now, row, segment, rfm, retention, order_items, affinity, pc>>

\* orders['order_month'] = ... adds a column to the caller's table before
\* anything can fail.
AnalyzeCohorts ==
    /\ orders_columns' = WithOrderMonth(orders_columns)
    /\ retention' = analyze_cohorts(orders)
    /\ UNCHANGED <<orders, events, now, row, segment, rfm, funnel, order_items, affinity, pc>>

AnalyzeProductAffinity ==
    /\ \E outcome \in analyze_product_affinity(orders, order_items) :
           affinity' = outcome
    /\ UNCHANGED <<orders, orders_columns, events, now, row, segment, rfm, funnel,
                   retention, order_items, pc>>

-----------------------------------------------------------------------------
(* The analyzers as threads of one caller, a step per access to a shared table *)

\* The columns the statements of an analyzer select from orders.
RfmColumns == {"customer_id", "order_date", "order_id", "order_total"}
CohortColumns == {"customer_id", "order_date", "order_month"}

Goto(a, position) == pc' = [pc EXCEPT ![a] = position]

\* current_date = pd.Timestamp.now()
RfmReadClock ==
    /\ pc["rfm"] = "start"
    /\ \E current_date \in now..MaxNow : now' = current_date
    /\ Goto("rfm", "clock")
    /\ UNCHANGED <<orders, orders_columns, events, row, segment, rfm, funnel, retention,
                   order_items, affinity>>

\* orders.groupby('customer_id').agg(...) and the scoring of the local frame.
RfmScore ==
    /\ pc["rfm"] = "clock"
    /\ rfm' = IF RfmColumns \subseteq orders_columns
              THEN calculate_rfm_scores(orders, now)
              ELSE Raised("KeyError")
    /\ Goto("rfm", "done")
    /\ UNCHANGED <<orders, orders_columns, events, now, row, segment, funnel, retention,
                   order_items, affinity>>

\* orders['order_month'] = orders['order_date'].dt.to_period('M')
CohortsAddColumn ==
    /\ pc["cohorts"] = "start"
    /\ orders_columns' = WithOrderMonth(orders_columns)
    /\ Goto("cohorts", "column")
    /\ UNCHANGED <<orders, events, now, row, segment, rfm, funnel, retention,
                   order_items, affinity>>

\* The groupby, merge and pivot that follow the assignment.
CohortsRetention ==
    /\ pc["cohorts"] = "column"
    /\ retention' = IF CohortColumns \subseteq orders_columns
                    THEN analyze_cohorts(orders)
                    ELSE Raised("KeyError")
    /\ Goto("cohorts", "done")
    /\ UNCHANGED <<orders, orders_columns, events, now, row, segment, rfm, funnel,
                   order_items, affinity>>

FunnelThread ==
    /\ pc["funnel"] = "start"
    /\ funnel' = calculate_conversion_funnel(events)
    /\ Goto("funnel", "done")
    /\ UNCHANGED <<orders, orders_columns, events, now, row, segment, rfm, retention,
                   order_items, affinity>>

AffinityThread ==
    /\ pc["affinity"] = "start"
    /\ \E outcome \in analyze_product_affinity(orders, order_items) :
           affinity' = outcome
    /\ Goto("affinity", "done")
    /\ UNCHANGED <<orders, orders_columns, events, now, row, segment, rfm, funnel,
                   retention, order_items>>

-----------------------------------------------------------------------------
(* Specifications *)

\* The analyzers a caller may run side by side, and where each one stands.
Analyzers == {"rfm", "cohorts", "funnel", "affinity"}
NotThreaded == [a \in Analyzers |-> "idle"]

NoCalls ==
    /\ segment = ""
    /\ rfm = NoResult
    /\ funnel = NoResult
    /\ retention = NoResult
    /\ affinity = NoResult
    /\ pc = NotThreaded

\* The segment classifier applied to a score triple.
InitSegment ==
    /\ row \in ScoreRows
    /\ orders = <<>>
    /\ orders_columns = OrderColumns
    /\ events = <<>>
    /\ now = NowStart
    /\ order_items = <<>>
    /\ NoCalls

NextSegment == AssignRfmSegment

SpecSegment == InitSegment /\ [][NextSegment]_vars

\* The order analyzers applied to an orders table.
InitOrders ==
    /\ IsOrderInput(orders)
    /\ orders_columns = OrderColumns
    /\ events = <<>>
    /\ now = NowStart
    /\ row = <<>>
    /\ order_items = <<>>
    /\ NoCalls

NextOrders == CalculateRfmScores \/ AnalyzeCohorts

SpecOrders == InitOrders /\ [][NextOrders]_vars

\* The RFM scoring engine alone.
NextRfm == CalculateRfmScores

SpecRfm == InitOrders /\ [][NextRfm]_vars

\* The cohort analyzer applied to an orders table spanning several months.
InitCohorts ==
    /\ \E n \in 0..MaxOrders : orders \in CohortTables(n)
    /\ orders_columns = OrderColumns
    /\ events = <<>>
    /\ now = NowStart
    /\ row = <<>>
    /\ order_items = <<>>
    /\ NoCalls

NextCohorts == AnalyzeCohorts

SpecCohorts == InitCohorts /\ [][NextCohorts]_vars

\* One call of the affinity analyzer on orders and their line items.
InitAffinity ==
    /\ \E n \in 0..MaxOrders :
           /\ orders = NumberedOrders(n)
           /\ \E k \in 0..MaxItems : order_items \in ItemTables(n, k)
    /\ orders_columns = OrderColumns
    /\ events = <<>>
    /\ now = NowStart
    /\ row = <<>>
    /\ NoCalls

NextAffinity == affinity = NoResult /\ AnalyzeProductAffinity

SpecAffinity == InitAffinity /\ [][NextAffinity]_vars

\* The four analyzers started side by side on the same tables.
InitThreads ==
    /\ orders \in {<<>>, ExampleOrdersAB, ExampleOrdersFive}
    /\ order_items \in {<<>>} \cup (IF Len(orders) >= 2 THEN {ExampleItems} ELSE {})
    /\ \E n \in 0..1 : events \in EventTables(n)
    /\ orders_columns = OrderColumns
    /\ now = NowStart
    /\ row = <<>>
    /\ segment = ""
    /\ rfm = NoResult
    /\ funnel = NoResult
    /\ retention = NoResult
    /\ affinity = NoResult
    /\ pc = [a \in Analyzers |-> "start"]

NextThreads ==
    \/ RfmReadClock
    \/ RfmScore
    \/ CohortsAddColumn
    \/ CohortsRetention
    \/ FunnelThread
    \/ AffinityThread

SpecThreads == InitThreads /\ [][NextThreads]_vars

\* The funnel calculator applied to an events table.
InitFunnel ==
    /\ \E n \in 0..MaxEvents : events \in EventTables(n)
    /\ orders = <<>>
    /\ orders_columns = OrderColumns
    /\ now = NowStart
    /\ row = <<>>
    /\ order_items = <<>>
    /\ NoCalls

NextFunnel == CalculateConversionFunnel

SpecFunnel == InitFunnel /\ [][NextFunnel]_vars

-----------------------------------------------------------------------------
(* Claims about the segment classifier (SpecSegment) *)

SegmentNames ==
    {"Champions", "Loyal Customers", "New Customers", "At Risk", "Lost Customers",
     "Potential Loyalists", "Regular Customers"}

\* The documented decision table: rule k's predicate and label.
RuleMatches(k, r, f, m) ==
    CASE k = 1 -> r >= 4 /\ f >= 4 /\ m >= 4
      [] k = 2 -> r >= 3 /\ f >= 3 /\ m >= 3
      [] k = 3 -> r >= 4 /\ f <= 2
      [] k = 4 -> r <= 2 /\ f >= 3
      [] k = 5 -> r <= 2 /\ f <= 2
      [] k = 6 -> r >= 3 /\ f <= 2
      [] k = 7 -> TRUE

RuleLabels ==
    <<"Champions", "Loyal Customers", "New Customers", "At Risk", "Lost Customers",
      "Potential Loyalists", "Regular Customers">>

FirstRule(r, f, m) == MinOf({k \in DOMAIN RuleLabels : RuleMatches(k, r, f, m)})

Triple(r, f, m) == [r_score |-> r, f_score |-> f, m_score |-> m]

\* C1: the classifier is total and first-match: for every score triple in 1..5
\* it returns one of the seven segment names, namely the label of the first
\* rule of the decision table that matches; (5,5,5) is Champions, (1,1,1) Lost
\* Customers, (1,4,4) At Risk and (4,1,1) New Customers.
C1_SegmentFirstMatch ==
    segment # "" =>
        /\ segment \in SegmentNames
        /\ segment = RuleLabels[FirstRule(row.r_score, row.f_score, row.m_score)]
        /\ row = Triple(5, 5, 5) => segment = "Champions"
        /\ row = Triple(1, 1, 1) => segment = "Lost Customers"
        /\ row = Triple(1, 4, 4) => segment = "At Risk"
        /\ row = Triple(4, 1, 1) => segment = "New Customers"

\* A triple no rule but the last matches has been classified.
C1_Witness == row = Triple(3, 3, 1) /\ segment = "Regular Customers"

-----------------------------------------------------------------------------
(* Claims about RFM scoring (SpecRfm, SpecOrders) *)

RfmCalled == rfm.status # "none"
RfmReturned == rfm.status = "ok"

ScoresOf(rw) == {rw.r_score, rw.f_score, rw.m_score}

\* C2: whenever score_rfm returns a result for a non-empty order collection,
\* every row's r_score, f_score and m_score is an integer in 1..5.
C2_ScoresInRange ==
    (orders # <<>> /\ RfmReturned) =>
        \A k \in DOMAIN rfm.rows : ScoresOf(rfm.rows[k]) \subseteq 1..5

\* A result for five customers whose scores span all of 1..5.
C2_Witness ==
    /\ RfmReturned
    /\ {rfm.rows[k].f_score : k \in DOMAIN rfm.rows} = 1..5

\* Some metric of the customers of o has tied values that make two or more
\* quintile edges equal at reference time t.
HasDuplicateEdges(o, t) ==
    LET S == {o[i].customer_id : i \in DOMAIN o}
    IN  \E vals \in {[c \in S |-> Recency(o, c, t)],
                     [c \in S |-> Frequency(o, c)],
                     [c \in S |-> Monetary(o, c)]} :
            \E j, k \in 0..NumQuantiles : j # k /\ Edge(vals, S, j) = Edge(vals, S, k)

NumCustomers == Cardinality({orders[i].customer_id : i \in DOMAIN orders})

\* C3: with at least two customers and a metric whose ties make quintile edges
\* equal, score_rfm does not fail: it returns a score for every customer.
C3_ToleratesDuplicateEdges ==
    (RfmCalled /\ NumCustomers >= 2 /\ HasDuplicateEdges(orders, now)) =>
        /\ RfmReturned
        /\ Len(rfm.rows) = NumCustomers

\* C4: with the orders of exactly one customer, score_rfm does not raise: it
\* returns one record with r_score = f_score = m_score = 3.
C4_SingleCustomerNeutral ==
    (RfmCalled /\ NumCustomers = 1) =>
        /\ RfmReturned
        /\ Len(rfm.rows) = 1
        /\ ScoresOf(rfm.rows[1]) = {3}

RECURSIVE SeqTotal(_)
SeqTotal(sq) == IF sq = <<>> THEN 0 ELSE Head(sq).order_total + SeqTotal(Tail(sq))

C6_ScoreDirection ==
    /\ RfmReturned =>
           \A j, k \in DOMAIN rfm.rows :
               LET a == rfm.rows[j]
                   b == rfm.rows[k]
               IN  /\ a.frequency > b.frequency => a.f_score >= b.f_score
                   /\ a.monetary > b.monetary => a.m_score >= b.m_score
                   /\ a.recency < b.recency => a.r_score >= b.r_score
    /\ (orders = ExampleOrdersAB /\ RfmCalled) =>
           /\ RfmReturned
           /\ Len(rfm.rows) = 2
           /\ rfm.rows[1].f_score > rfm.rows[2].f_score
           /\ rfm.rows[1].m_score > rfm.rows[2].m_score

\* The A/B example has been scored.
C6_Witness == orders = ExampleOrdersAB /\ RfmReturned

\* C7: on an empty order collection, score_rfm and compute_cohorts each fail
\* with the error kind EmptyInputError and return no table.
C7_EmptyInputError ==
    orders = <<>> =>
        /\ RfmCalled =>
               rfm.status = "error" /\ rfm.error = "EmptyInputError" /\ rfm.rows = <<>>
        /\ retention.status # "none" =>
               /\ retention.status = "error"
               /\ retention.error = "EmptyInputError"
               /\ retention.rows = <<>>

-----------------------------------------------------------------------------
(* Claims about the conversion funnel (SpecFunnel) *)

FunnelReturned == funnel.status = "ok"

\* C8: for every non-empty event collection, compute_funnel returns exactly
\* five rows named visit, product_view, add_to_cart, checkout, purchase in row
\* order, with stage_order 1, 2, 3, 4, 5.
C8_FiveStagesInOrder ==
    (events # <<>> /\ funnel.status # "none") =>
        /\ FunnelReturned
        /\ Len(funnel.rows) = 5
        /\ [i \in 1..5 |-> funnel.rows[i].stage]
               = <<"visit", "product_view", "add_to_cart", "checkout", "purchase">>
        /\ [i \in 1..5 |-> funnel.rows[i].stage_order] = <<1, 2, 3, 4, 5>>

\* A funnel of two sessions in which only one reached checkout.
C8_Witness ==
    /\ FunnelReturned
    /\ funnel.rows[1].sessions = 2
    /\ funnel.rows[4].sessions = 1

\* C9: in every funnel returned, conversion_rate of the visit stage is 100 and,
\* for each of the five stages, drop_off_rate + conversion_rate = 100 with
\* conversion_rate = sessions[stage] / sessions[visit] x 100.
C9_RatesSumToHundred ==
    FunnelReturned =>
        /\ RateEquals(funnel.rows[1].conversion_rate, 100)
        /\ \A i \in DOMAIN funnel.rows :
               LET conv == funnel.rows[i].conversion_rate
                   drop == funnel.rows[i].drop_off_rate
               IN  /\ IsNum(conv)
                   /\ IsNum(drop)
                   /\ RateEquals(RateSum(drop, conv), 100)
                   /\ conv.num * funnel.rows[1].sessions
                          = 100 * funnel.rows[i].sessions * conv.den

\* C10: in every funnel returned, sessions and conversion_rate are
\* non-increasing in stage order (stated here for non-empty collections, whose
\* rates are all defined).
C10_FunnelMonotone ==
    (events # <<>> /\ FunnelReturned) =>
        \A i \in 1..4 :
            /\ funnel.rows[i].sessions >= funnel.rows[i + 1].sessions
            /\ RateLeq(funnel.rows[i + 1].conversion_rate, funnel.rows[i].conversion_rate)

\* C11: when the visit-stage session count is 0 (no events), compute_funnel
\* fails with EmptyInputError instead of returning a funnel whose
\* conversion_rate values are 0, NaN or otherwise undefined.
C11_ZeroVisitsFail ==
    (funnel.status # "none" /\ {events[i].session_id : i \in DOMAIN events} = {}) =>
        /\ funnel.status = "error"
        /\ funnel.error = "EmptyInputError"
        /\ funnel.rows = <<>>

\* C21: in every funnel returned, stage_conversion of the first stage is 100
\* and for every later stage it is sessions[stage] / sessions[previous stage]
\* x 100 (infinite when only the previous stage has no session); a later
\* stage's stage_conversion is 100 only when its session count equals the
\* previous stage's, also when the previous stage has zero sessions.
C21_StageConversion ==
    FunnelReturned =>
        /\ RateEquals(funnel.rows[1].stage_conversion, 100)
        /\ \A i \in 2..Len(funnel.rows) :
               LET x    == funnel.rows[i].stage_conversion
                   here == funnel.rows[i].sessions
                   prev == funnel.rows[i - 1].sessions
               IN  /\ prev > 0 => (IsNum(x) /\ x.num * prev = 100 * here * x.den)
                   /\ (prev = 0 /\ here > 0) => x.kind = "inf"
                   /\ RateEquals(x, 100) => here = prev

\* A funnel of a session that started a checkout without a product view or a
\* cart: add_to_cart follows a stage of zero sessions with zero sessions, and
\* checkout follows a stage of zero sessions with one.
C21_Witness ==
    /\ FunnelReturned
    /\ funnel.rows[2].sessions = 0
    /\ funnel.rows[3].sessions = 0
    /\ RateEquals(funnel.rows[3].stage_conversion, 100)
    /\ funnel.rows[4].sessions > 0
    /\ funnel.rows[4].stage_conversion.kind = "inf"

\* C22: for every non-empty event collection, each stage's session count is at
\* most the visit stage's, so every conversion_rate and every drop_off_rate
\* lies in [0,100], even when the funnel is not monotone.
C22_RatesWithinHundred ==
    (events # <<>> /\ FunnelReturned) =>
        \A i \in DOMAIN funnel.rows :
            LET conv == funnel.rows[i].conversion_rate
                drop == funnel.rows[i].drop_off_rate
            IN  /\ funnel.rows[i].sessions <= funnel.rows[1].sessions
                /\ IsNum(conv) /\ 0 <= conv.num /\ conv.num <= 100 * conv.den
                /\ IsNum(drop) /\ 0 <= drop.num /\ drop.num <= 100 * drop.den

\* A funnel that is not monotone: more sessions at checkout than at add_to_cart.
C22_Witness ==
    /\ events # <<>>
    /\ FunnelReturned
    /\ funnel.rows[3].sessions < funnel.rows[4].sessions
    /\ funnel.rows[4].sessions < funnel.rows[1].sessions

-----------------------------------------------------------------------------
(* Claims about the cohort analysis (SpecCohorts) *)

RetentionReturned == retention.status = "ok"

\* The cohort months and the month offsets a returned matrix has.
RetentionIndex == {cell[1] : cell \in DOMAIN retention.rows}
RetentionColumns == {cell[2] : cell \in DOMAIN retention.rows}

\* C12: for every non-empty order collection, every defined
\* retention_percentage lies in [0,100], and for every cohort_month present
\* the entry at months_since_first = 0 is defined and equals 100.
C12_RetentionBounded ==
    (orders # <<>> /\ retention.status # "none") =>
        /\ RetentionReturned
        /\ \A cell \in DOMAIN retention.rows :
               LET x == retention.rows[cell]
               IN  /\ x.kind \in {"num", "nan"}
                   /\ IsNum(x) => (0 <= x.num /\ x.num <= 100 * x.den)
        /\ \A cm \in RetentionIndex :
               /\ <<cm, 0>> \in DOMAIN retention.rows
               /\ RateEquals(retention.rows[<<cm, 0>>], 100)

\* A matrix in which half of a cohort of two came back a month later.
C12_Witness ==
    /\ RetentionReturned
    /\ <<0, 1>> \in DOMAIN retention.rows
    /\ RateEquals(retention.rows[<<0, 1>>], 50)

\* The calendar month of customer c's earliest order.
FirstOrderMonth(c) ==
    LET mine  == {i \in DOMAIN orders : orders[i].customer_id = c}
        first == CHOOSE i \in mine : \A j \in mine : orders[i].order_date <= orders[j].order_date
    IN  MonthOf(orders[first].order_date)

\* The customers of cohort cm with at least one order off months after cm.
Contributing(cm, off) ==
    {orders[i].customer_id : i \in
        {j \in DOMAIN orders : /\ FirstOrderMonth(orders[j].customer_id) = cm
                               /\ MonthOf(orders[j].order_date) - cm = off}}

\* C13: each customer belongs to exactly one cohort, the calendar month of
\* their earliest order; every month offset is an integer >= 0; the entry
\* (cohort_month, offset) is defined exactly when a customer of that cohort has
\* an order at that offset, and then equals the number of distinct such
\* customers over the number of distinct customers of the cohort, times 100;
\* entries no customer contributes to are absent (NaN), not zero.
C13_CohortMatrix ==
    RetentionReturned =>
        /\ RetentionIndex = {FirstOrderMonth(orders[i].customer_id) : i \in DOMAIN orders}
        /\ RetentionColumns =
               {MonthOf(orders[i].order_date) - FirstOrderMonth(orders[i].customer_id) :
                    i \in DOMAIN orders}
        /\ \A off \in RetentionColumns : off \in Nat
        /\ DOMAIN retention.rows = RetentionIndex \X RetentionColumns
        /\ \A cell \in DOMAIN retention.rows :
               LET x      == retention.rows[cell]
                   kept   == Cardinality(Contributing(cell[1], cell[2]))
                   cohort == Cardinality({orders[i].customer_id : i \in
                                 {j \in DOMAIN orders :
                                     FirstOrderMonth(orders[j].customer_id) = cell[1]}})
               IN  IF kept = 0 THEN x.kind = "nan"
                   ELSE IsNum(x) /\ x.num * cohort = 100 * kept * x.den

\* A matrix of two cohorts with a defined entry after the first month and an
\* absent entry.
C13_Witness ==
    /\ RetentionReturned
    /\ Cardinality(RetentionIndex) = 2
    /\ \E cell \in DOMAIN retention.rows : retention.rows[cell].kind = "nan"
    /\ \E cell \in DOMAIN retention.rows : cell[2] > 0 /\ IsNum(retention.rows[cell])

-----------------------------------------------------------------------------
(* Claims about the product affinity analysis (SpecAffinity) *)

AffinityReturned == affinity.status = "ok"

\* The orders whose line items list product x.
OrdersListing(x) ==
    {order_items[i].order_id : i \in {j \in DOMAIN order_items : order_items[j].product_id = x}}

\* C14: compute_affinity counts each order at most once per product pair, even
\* when an order lists a product several times, and no row pairs a product
\* with itself.
C14_OncePerOrder ==
    AffinityReturned =>
        \A i \in DOMAIN affinity.rows :
            LET r == affinity.rows[i]
            IN  /\ r.product_a # r.product_b
                /\ r.co_occurrence_count <=
                       Cardinality(OrdersListing(r.product_a) \cap OrdersListing(r.product_b))

\* C15: every row is canonical, product_a < product_b, and the result never
\* holds both (p, q) and (q, p), whatever the order the line items list them in.
C15_CanonicalPairs ==
    AffinityReturned =>
        /\ \A i \in DOMAIN affinity.rows :
               affinity.rows[i].product_a < affinity.rows[i].product_b
        /\ \A i, j \in DOMAIN affinity.rows :
               ~ /\ i # j
                 /\ affinity.rows[i].product_a = affinity.rows[j].product_b
                 /\ affinity.rows[i].product_b = affinity.rows[j].product_a

\* C16: in every row co_occurrence_count is at least 1 and at most
\* total_orders, and support lies in (0, 1].
C16_CountAndSupportBounded ==
    AffinityReturned =>
        \A i \in DOMAIN affinity.rows :
            LET r == affinity.rows[i]
            IN  /\ 1 <= r.co_occurrence_count
                /\ r.co_occurrence_count <= Len(orders)
                /\ IsNum(r.support)
                /\ 0 < r.support.num
                /\ r.support.num <= r.support.den

\* C17: the rows come by co_occurrence_count descending, rows of equal count by
\* (product_a, product_b) ascending.
C17_SortedWithTieBreak ==
    AffinityReturned =>
        \A i, j \in DOMAIN affinity.rows :
            i < j =>
                LET r == affinity.rows[i]
                    q == affinity.rows[j]
                IN  \/ r.co_occurrence_count > q.co_occurrence_count
                    \/ /\ r.co_occurrence_count = q.co_occurrence_count
                       /\ \/ r.product_a < q.product_a
                          \/ r.product_a = q.product_a /\ r.product_b < q.product_b

-----------------------------------------------------------------------------
(* Claims about repeated calls and the caller's tables (SpecOrders) *)

\* C18: every analyzer is idempotent: a call made after an earlier call with
\* the same inputs, at whatever later time and after whatever other analyzer
\* calls, returns what the earlier call returned.
C18_RepeatedCallSameResult ==
    [][/\ segment # "" => segment' = segment
       /\ rfm # NoResult => rfm' = rfm
       /\ funnel # NoResult => funnel' = funnel
       /\ retention # NoResult => retention' = retention
       /\ affinity # NoResult => affinity' = affinity]_vars

\* C19: the analyzers leave the caller's tables as they were: no call changes
\* the records of the orders, the events or the line items, nor the set of
\* fields of the orders.
C19_InputsUntouched ==
    [][/\ orders' = orders
       /\ orders_columns' = orders_columns
       /\ events' = events
       /\ order_items' = order_items]_vars

-----------------------------------------------------------------------------
(* Claims about analyzers run side by side (SpecThreads) *)

=============================================================================
